---- MODULE Spec2Model ----
(***************************************************************************)
(* A model of juce_AudioDataConverters.h: the AudioData sample formats,    *)
(* the strided AudioData::Pointer cursor, Pointer::convertSamples and      *)
(* clearSamples, and AudioData::ConverterInstance.                         *)
(*                                                                         *)
(* Memory is an array of bytes.  A machine word (uint16, uint32, the bits  *)
(* of a float) is the tuple of its bytes, least significant byte first, so *)
(* that no 32-bit unsigned quantity is ever held in one integer.  int32    *)
(* values are integers in -2^31 .. 2^31-1.  A float is the record of the   *)
(* three fields of its IEEE-754 single precision encoding; NaN patterns    *)
(* occur only in the raw buffers of SpecRaw, where a Float32 sample is     *)
(* copied or read but never rounded: what getAsInt32 returns for a NaN is  *)
(* left to the build.                                                      *)
(***************************************************************************)
EXTENDS Integers, Sequences, FiniteSets, TLC

VARIABLES
    mem,            \* the bytes of the caller's buffers
    hostBigEndian,  \* JUCE_BIG_ENDIAN of the build
    roundWraps,     \* the build's roundToInt on a value outside int32: wraps, or saturates
    pc,             \* "ready" before the operation, then the stage reached
    op,             \* the operation last invoked and its arguments
    mem0,           \* the bytes before the operation
    ret,            \* what the last read operation returned
    writeLog        \* the addresses written by convertSamples, in order

vars == <<mem, hostBigEndian, roundWraps, pc, op, mem0, ret, writeLog>>

----------------------------------------------------------------------------
(* Bounds *)

MaxN == 3        \* most samples converted by one call
MaxChans == 2    \* most interleaved channels of a cursor

\* bytes of one buffer: MaxN samples of MaxChans channels of 4 bytes
BufSize == MaxN * MaxChans * 4
\* two buffers: the source's at 0, a separate destination's at BufSize
MemSize == 2 * BufSize

----------------------------------------------------------------------------
(* Integers of fixed width *)

Pow2(k) == 2 ^ k

INT_MIN == (-2147483647) - 1
INT_MAX == 2147483647

RECURSIVE BitLen(_)
\* number of bits of a >= 0
BitLen(a) == IF a = 0 THEN 0 ELSE 1 + BitLen(a \div 2)

\* the bytes of the two's-complement integer x, w bytes wide, low byte first:
\* the casts (uint8), (uint16), (uint32) of an int
ToWord(x, w) == [i \in 1..w |-> (x \div Pow2(8 * (i - 1))) % 256]

\* the casts (int8), (int16), (int32) of a word of 1, 2 or 4 bytes
ToSigned(word) ==
    LET w == Len(word)
        top == IF word[w] >= 128 THEN word[w] - 256 ELSE word[w]
        RECURSIVE Low(_)
        Low(i) == IF i = 0 THEN 0 ELSE word[i] * Pow2(8 * (i - 1)) + Low(i - 1)
    IN  top * Pow2(8 * (w - 1)) + Low(w - 1)

\* x << k on a 32-bit int whose value stays inside the int range
\* (a sample of w bits shifted by 32-w)
ShiftLeft(x, k) == x * Pow2(k)

\* x >> k on a signed int: arithmetic shift
ShiftRight(x, k) == x \div Pow2(k)

\* ByteOrder::swap
swap(word) == [i \in 1..Len(word) |-> word[Len(word) + 1 - i]]

swapIfBigEndian(word) == IF hostBigEndian THEN swap(word) ELSE word

swapIfLittleEndian(word) == IF hostBigEndian THEN word ELSE swap(word)

\* jlimit on ints
jlimit(lo, hi, x) == IF x < lo THEN lo ELSE IF hi < x THEN hi ELSE x

----------------------------------------------------------------------------
(* Memory *)

\* *data, read through a pointer to a w-byte machine word
Load(m, a, w) ==
    [i \in 1..w |-> IF hostBigEndian THEN m[a + w - i] ELSE m[a + i - 1]]

RECURSIVE StoreBytes(_, _, _, _)
\* the bytes of a sequence written from address a on, the i-th and later
StoreBytes(m, a, bytes, i) ==
    IF i > Len(bytes) THEN m
    ELSE StoreBytes([m EXCEPT ![a + i - 1] = bytes[i]], a, bytes, i + 1)

\* *data = word
Store(m, a, word) ==
    StoreBytes(m, a, IF hostBigEndian THEN [i \in 1..Len(word) |-> word[Len(word) + 1 - i]] ELSE word, 1)

\* data[i] = bytes[i] for a char* (Int24)
StoreChars(m, a, bytes) == StoreBytes(m, a, bytes, 1)

\* ByteOrder::littleEndian24Bit / bigEndian24Bit: three chars to a signed int
littleEndian24Bit(m, a) == ToSigned(<<m[a], m[a + 1], m[a + 2]>>)

bigEndian24Bit(m, a) == ToSigned(<<m[a + 2], m[a + 1], m[a]>>)

\* ByteOrder::littleEndian24BitToChars / bigEndian24BitToChars
littleEndian24BitToChars(m, value, a) == StoreChars(m, a, ToWord(value, 3))

bigEndian24BitToChars(m, value, a) == StoreChars(m, a, swap(ToWord(value, 3)))

\* zeromem (data, numBytes)
zeromem(m, a, numBytes) ==
    [x \in DOMAIN m |-> IF x >= a /\ x < a + numBytes THEN 0 ELSE m[x]]

\* memset (data, value, numBytes)
memset(m, a, value, numBytes) ==
    [x \in DOMAIN m |-> IF x >= a /\ x < a + numBytes THEN value ELSE m[x]]

----------------------------------------------------------------------------
(* float: sign s, biased exponent e, fraction m of the IEEE-754 encoding *)

Float(s, e, m) == [s |-> s, e |-> e, m |-> m]

FZero == Float(0, 0, 0)
FOne == Float(0, 127, 0)
FMinusOne == Float(1, 127, 0)

IsNaN(f) == f.e = 255 /\ f.m # 0

\* the bits of a float as a uint32 word, and back (the union { uint32; float })
FloatToWord(f) ==
    <<f.m % 256, (f.m \div 256) % 256, (f.e % 2) * 128 + f.m \div 65536, f.s * 128 + f.e \div 2>>

WordToFloat(word) ==
    Float(word[4] \div 128,
          (word[4] % 128) * 2 + word[3] \div 128,
          (word[3] % 128) * 65536 + word[2] * 256 + word[1])

\* a < b on floats that are not NaN
FloatLess(a, b) ==
    LET key(f) == IF f.s = 1 THEN -(f.e * 8388608 + f.m) ELSE f.e * 8388608 + f.m
    IN  key(a) < key(b)

\* jlimit on floats
jlimitFloat(lo, hi, f) == IF FloatLess(f, lo) THEN lo ELSE IF FloatLess(hi, f) THEN hi ELSE f

\* q / 2^r rounded to the nearest integer, ties to even (q >= 0, r >= 1)
RoundShift(q, r) ==
    LET d == Pow2(r)
        lo == q \div d
        rem == q % d
        half == d \div 2
    IN  IF rem > half \/ (rem = half /\ lo % 2 = 1) THEN lo + 1 ELSE lo

\* the low 32 bits of sig * 2^sh as a signed int (sh >= 1)
WrapShift(sig, sh) ==
    IF sh >= 32 THEN 0
    ELSE LET low == sig % Pow2(32 - sh)
             msb == Pow2(31 - sh)
         IN  IF low >= msb THEN ((low - msb) * Pow2(sh) - INT_MAX) - 1
             ELSE low * Pow2(sh)

Negate32(x) == IF x = INT_MIN THEN INT_MIN ELSE -x

\* roundToInt (f * 2^k): f is widened to double and multiplied by the double
\* 1.0 + maxValue = 2^k exactly, then rounded to the nearest int.  Outside the
\* range of int the result is the build's: the low 32 bits, or the nearest int.
roundToInt(f, k) ==
    LET sig == IF f.e = 0 THEN f.m ELSE f.m + 8388608
        sh == (IF f.e = 0 THEN 1 ELSE f.e) - 150 + k
        neg == f.s = 1
        sign(x) == IF neg THEN -x ELSE x
    IN  IF sig = 0 THEN 0
        ELSE IF sh < 0
             THEN IF -sh >= 26 THEN 0 ELSE sign(RoundShift(sig, -sh))
        ELSE IF BitLen(sig) + sh <= 31 THEN sign(sig * Pow2(sh))
        ELSE IF neg /\ BitLen(sig) + sh = 32 /\ sig = Pow2(BitLen(sig) - 1) THEN INT_MIN
        ELSE IF roundWraps
             THEN (IF neg THEN Negate32(WrapShift(sig, sh)) ELSE WrapShift(sig, sh))
             ELSE (IF neg THEN INT_MIN ELSE INT_MAX)

\* (float) (x * (1.0 / 2^k)) for an int x: the double product is exact, the cast
\* to float rounds to 24 significant bits, ties to even
ToFloat(x, k) ==
    IF x = 0 THEN FZero
    ELSE IF x = INT_MIN THEN Float(1, 31 - k + 127, 0)
    ELSE LET a == IF x < 0 THEN -x ELSE x
             len == BitLen(a)
             sig == IF len <= 24 THEN a * Pow2(24 - len) ELSE RoundShift(a, len - 24)
             carry == sig = 16777216
         IN  Float(IF x < 0 THEN 1 ELSE 0,
                   (len - 1) + (IF carry THEN 1 ELSE 0) - k + 127,
                   IF carry THEN 0 ELSE sig - 8388608)

----------------------------------------------------------------------------
(* AudioData::Int8 *)

Int8_getAsFloatLE(m, a) == ToFloat(ToSigned(<<m[a]>>), 7)

Int8_getAsFloatBE(m, a) == Int8_getAsFloatLE(m, a)

Int8_setAsFloatLE(m, a, newValue) ==
    Store(m, a, ToWord(jlimit(-127, 127, roundToInt(newValue, 7)), 1))

Int8_setAsFloatBE(m, a, newValue) == Int8_setAsFloatLE(m, a, newValue)

Int8_getAsInt32LE(m, a) == ShiftLeft(ToSigned(<<m[a]>>), 24)

Int8_getAsInt32BE(m, a) == Int8_getAsInt32LE(m, a)

Int8_setAsInt32LE(m, a, newValue) == Store(m, a, ToWord(ShiftRight(newValue, 24), 1))

Int8_setAsInt32BE(m, a, newValue) == Int8_setAsInt32LE(m, a, newValue)

Int8_clear(m, a) == Store(m, a, <<0>>)

Int8_clearMultiple(m, a, num) == zeromem(m, a, num * 1)

Int8_copyFromSameType(m, a, source) == Store(m, a, Load(m, source, 1))

----------------------------------------------------------------------------
(* AudioData::UInt8 *)

UInt8_getAsFloatLE(m, a) == ToFloat(m[a] - 128, 7)

UInt8_getAsFloatBE(m, a) == UInt8_getAsFloatLE(m, a)

UInt8_setAsFloatLE(m, a, newValue) ==
    Store(m, a, ToWord(jlimit(0, 255, 128 + roundToInt(newValue, 7)), 1))

UInt8_setAsFloatBE(m, a, newValue) == UInt8_setAsFloatLE(m, a, newValue)

UInt8_getAsInt32LE(m, a) == ShiftLeft(m[a] - 128, 24)

UInt8_getAsInt32BE(m, a) == UInt8_getAsInt32LE(m, a)

UInt8_setAsInt32LE(m, a, newValue) == Store(m, a, ToWord(128 + ShiftRight(newValue, 24), 1))

UInt8_setAsInt32BE(m, a, newValue) == UInt8_setAsInt32LE(m, a, newValue)

UInt8_clear(m, a) == Store(m, a, <<128>>)

UInt8_clearMultiple(m, a, num) == memset(m, a, 128, num)

UInt8_copyFromSameType(m, a, source) == Store(m, a, Load(m, source, 1))

----------------------------------------------------------------------------
(* AudioData::Int16 *)

\* getAsFloatLE scaling by the 16 bits of the sample instead of its maximum
Int16_getAsFloatLE_By65536(m, a) == ToFloat(ToSigned(swapIfBigEndian(Load(m, a, 2))), 16)

Int16_getAsFloatLE(m, a) == ToFloat(ToSigned(swapIfBigEndian(Load(m, a, 2))), 15)

\* getAsFloatBE with the byte swap left out
Int16_getAsFloatBE_Unswapped(m, a) == Int16_getAsFloatLE(m, a)

Int16_getAsFloatBE(m, a) == ToFloat(ToSigned(swapIfLittleEndian(Load(m, a, 2))), 15)

\* the rounded value is cast to int16 before it is limited
Int16_quantize(newValue) ==
    jlimit(-32767, 32767, ToSigned(ToWord(roundToInt(newValue, 15), 2)))

Int16_setAsFloatLE(m, a, newValue) ==
    Store(m, a, swapIfBigEndian(ToWord(Int16_quantize(newValue), 2)))

Int16_setAsFloatBE(m, a, newValue) ==
    Store(m, a, swapIfLittleEndian(ToWord(Int16_quantize(newValue), 2)))

\* (uint16) << 16, cast to int32: the sample's bits in the top half
Int16_getAsInt32LE(m, a) == ShiftLeft(ToSigned(swapIfBigEndian(Load(m, a, 2))), 16)

Int16_getAsInt32BE(m, a) == ShiftLeft(ToSigned(swapIfLittleEndian(Load(m, a, 2))), 16)

Int16_setAsInt32LE(m, a, newValue) ==
    Store(m, a, swapIfBigEndian(ToWord(ShiftRight(newValue, 16), 2)))

Int16_setAsInt32BE(m, a, newValue) ==
    Store(m, a, swapIfLittleEndian(ToWord(ShiftRight(newValue, 16), 2)))

Int16_clear(m, a) == Store(m, a, <<0, 0>>)

Int16_clearMultiple(m, a, num) == zeromem(m, a, num * 2)

Int16_copyFromSameType(m, a, source) == Store(m, a, Load(m, source, 2))

----------------------------------------------------------------------------
(* AudioData::Int24 *)

Int24_getAsFloatLE(m, a) == ToFloat(littleEndian24Bit(m, a), 23)

Int24_getAsFloatBE(m, a) == ToFloat(bigEndian24Bit(m, a), 23)

Int24_setAsFloatLE(m, a, newValue) ==
    littleEndian24BitToChars(m, jlimit(-8388607, 8388607, roundToInt(newValue, 23)), a)

Int24_setAsFloatBE(m, a, newValue) ==
    bigEndian24BitToChars(m, jlimit(-8388607, 8388607, roundToInt(newValue, 23)), a)

Int24_getAsInt32LE(m, a) == ShiftLeft(littleEndian24Bit(m, a), 8)

\* getAsInt32BE that reads the three chars in little-endian order
Int24_getAsInt32BE_LittleEndian(m, a) == ShiftLeft(littleEndian24Bit(m, a), 8)

Int24_getAsInt32BE(m, a) == ShiftLeft(bigEndian24Bit(m, a), 8)

Int24_setAsInt32LE(m, a, newValue) == littleEndian24BitToChars(m, ShiftRight(newValue, 8), a)

Int24_setAsInt32BE(m, a, newValue) == bigEndian24BitToChars(m, ShiftRight(newValue, 8), a)

Int24_clear(m, a) == StoreChars(m, a, <<0, 0, 0>>)

Int24_clearMultiple(m, a, num) == zeromem(m, a, num * 3)

\* copyFromSameType that leaves the third byte behind
Int24_copyFromSameType_TwoBytes(m, a, source) == StoreChars(m, a, <<m[source], m[source + 1]>>)

Int24_copyFromSameType(m, a, source) ==
    StoreChars(m, a, <<m[source], m[source + 1], m[source + 2]>>)

----------------------------------------------------------------------------
(* AudioData::Int32 *)

Int32_getAsFloatLE(m, a) == ToFloat(ToSigned(swapIfBigEndian(Load(m, a, 4))), 31)

Int32_getAsFloatBE(m, a) == ToFloat(ToSigned(swapIfLittleEndian(Load(m, a, 4))), 31)

Int32_setAsFloatLE(m, a, newValue) ==
    Store(m, a, swapIfBigEndian(ToWord(jlimit(-INT_MAX, INT_MAX, roundToInt(newValue, 31)), 4)))

Int32_setAsFloatBE(m, a, newValue) ==
    Store(m, a, swapIfLittleEndian(ToWord(jlimit(-INT_MAX, INT_MAX, roundToInt(newValue, 31)), 4)))

Int32_getAsInt32LE(m, a) == ToSigned(swapIfBigEndian(Load(m, a, 4)))

Int32_getAsInt32BE(m, a) == ToSigned(swapIfLittleEndian(Load(m, a, 4)))

Int32_setAsInt32LE(m, a, newValue) == Store(m, a, swapIfBigEndian(ToWord(newValue, 4)))

Int32_setAsInt32BE(m, a, newValue) == Store(m, a, swapIfLittleEndian(ToWord(newValue, 4)))

Int32_clear(m, a) == Store(m, a, <<0, 0, 0, 0>>)

Int32_clearMultiple(m, a, num) == zeromem(m, a, num * 4)

Int32_copyFromSameType(m, a, source) == Store(m, a, Load(m, source, 4))

----------------------------------------------------------------------------
(* AudioData::Float32 *)

\* the byte order that is the host's reads and writes the float as it is; the
\* other one swaps the bytes of its bit pattern
Float32_getAsFloatLE(m, a) ==
    IF hostBigEndian THEN WordToFloat(swap(Load(m, a, 4))) ELSE WordToFloat(Load(m, a, 4))

Float32_getAsFloatBE(m, a) ==
    IF hostBigEndian THEN WordToFloat(Load(m, a, 4)) ELSE WordToFloat(swap(Load(m, a, 4)))

Float32_setAsFloatLE(m, a, newValue) ==
    IF hostBigEndian THEN Store(m, a, swap(FloatToWord(newValue)))
    ELSE Store(m, a, FloatToWord(newValue))

\* setAsFloatBE storing in the order setAsFloatLE stores
Float32_setAsFloatBE_Unswapped(m, a, newValue) == Float32_setAsFloatLE(m, a, newValue)

Float32_setAsFloatBE(m, a, newValue) ==
    IF hostBigEndian THEN Store(m, a, FloatToWord(newValue))
    ELSE Store(m, a, swap(FloatToWord(newValue)))

Float32_getAsInt32LE(m, a) ==
    roundToInt(jlimitFloat(FMinusOne, FOne, Float32_getAsFloatLE(m, a)), 31)

Float32_getAsInt32BE(m, a) ==
    roundToInt(jlimitFloat(FMinusOne, FOne, Float32_getAsFloatBE(m, a)), 31)

Float32_setAsInt32LE(m, a, newValue) == Float32_setAsFloatLE(m, a, ToFloat(newValue, 31))

Float32_setAsInt32BE(m, a, newValue) == Float32_setAsFloatBE(m, a, ToFloat(newValue, 31))

Float32_clear(m, a) == Store(m, a, FloatToWord(FZero))

Float32_clearMultiple(m, a, num) == zeromem(m, a, num * 4)

Float32_copyFromSameType(m, a, source) == Store(m, a, Load(m, source, 4))

----------------------------------------------------------------------------
(* The sample formats' constants and the dispatch on the SampleFormat class *)

Formats == {"Int8", "UInt8", "Int16", "Int24", "Int32", "Float32"}

bytesPerSample(fmt) ==
    CASE fmt = "Int8" -> 1 [] fmt = "UInt8" -> 1 [] fmt = "Int16" -> 2
      [] fmt = "Int24" -> 3 [] fmt = "Int32" -> 4 [] fmt = "Float32" -> 4

maxValue(fmt) ==
    CASE fmt = "Int8" -> 127 [] fmt = "UInt8" -> 127 [] fmt = "Int16" -> 32767
      [] fmt = "Int24" -> 8388607 [] fmt = "Int32" -> INT_MAX [] fmt = "Float32" -> INT_MAX

resolution(fmt) ==
    CASE fmt = "Int8" -> Pow2(24) [] fmt = "UInt8" -> Pow2(24) [] fmt = "Int16" -> Pow2(16)
      [] fmt = "Int24" -> Pow2(8) [] fmt = "Int32" -> 1 [] fmt = "Float32" -> Pow2(8)

isFloat(fmt) == fmt = "Float32"

getAsFloatLE(m, fmt, a) ==
    CASE fmt = "Int8" -> Int8_getAsFloatLE(m, a) [] fmt = "UInt8" -> UInt8_getAsFloatLE(m, a)
      [] fmt = "Int16" -> Int16_getAsFloatLE(m, a) [] fmt = "Int24" -> Int24_getAsFloatLE(m, a)
      [] fmt = "Int32" -> Int32_getAsFloatLE(m, a) [] fmt = "Float32" -> Float32_getAsFloatLE(m, a)

getAsFloatBE(m, fmt, a) ==
    CASE fmt = "Int8" -> Int8_getAsFloatBE(m, a) [] fmt = "UInt8" -> UInt8_getAsFloatBE(m, a)
      [] fmt = "Int16" -> Int16_getAsFloatBE(m, a) [] fmt = "Int24" -> Int24_getAsFloatBE(m, a)
      [] fmt = "Int32" -> Int32_getAsFloatBE(m, a) [] fmt = "Float32" -> Float32_getAsFloatBE(m, a)

setAsFloatLE(m, fmt, a, v) ==
    CASE fmt = "Int8" -> Int8_setAsFloatLE(m, a, v) [] fmt = "UInt8" -> UInt8_setAsFloatLE(m, a, v)
      [] fmt = "Int16" -> Int16_setAsFloatLE(m, a, v) [] fmt = "Int24" -> Int24_setAsFloatLE(m, a, v)
      [] fmt = "Int32" -> Int32_setAsFloatLE(m, a, v) [] fmt = "Float32" -> Float32_setAsFloatLE(m, a, v)

setAsFloatBE(m, fmt, a, v) ==
    CASE fmt = "Int8" -> Int8_setAsFloatBE(m, a, v) [] fmt = "UInt8" -> UInt8_setAsFloatBE(m, a, v)
      [] fmt = "Int16" -> Int16_setAsFloatBE(m, a, v) [] fmt = "Int24" -> Int24_setAsFloatBE(m, a, v)
      [] fmt = "Int32" -> Int32_setAsFloatBE(m, a, v) [] fmt = "Float32" -> Float32_setAsFloatBE(m, a, v)

getAsInt32LE(m, fmt, a) ==
    CASE fmt = "Int8" -> Int8_getAsInt32LE(m, a) [] fmt = "UInt8" -> UInt8_getAsInt32LE(m, a)
      [] fmt = "Int16" -> Int16_getAsInt32LE(m, a) [] fmt = "Int24" -> Int24_getAsInt32LE(m, a)
      [] fmt = "Int32" -> Int32_getAsInt32LE(m, a) [] fmt = "Float32" -> Float32_getAsInt32LE(m, a)

getAsInt32BE(m, fmt, a) ==
    CASE fmt = "Int8" -> Int8_getAsInt32BE(m, a) [] fmt = "UInt8" -> UInt8_getAsInt32BE(m, a)
      [] fmt = "Int16" -> Int16_getAsInt32BE(m, a) [] fmt = "Int24" -> Int24_getAsInt32BE(m, a)
      [] fmt = "Int32" -> Int32_getAsInt32BE(m, a) [] fmt = "Float32" -> Float32_getAsInt32BE(m, a)

setAsInt32LE(m, fmt, a, v) ==
    CASE fmt = "Int8" -> Int8_setAsInt32LE(m, a, v) [] fmt = "UInt8" -> UInt8_setAsInt32LE(m, a, v)
      [] fmt = "Int16" -> Int16_setAsInt32LE(m, a, v) [] fmt = "Int24" -> Int24_setAsInt32LE(m, a, v)
      [] fmt = "Int32" -> Int32_setAsInt32LE(m, a, v) [] fmt = "Float32" -> Float32_setAsInt32LE(m, a, v)

setAsInt32BE(m, fmt, a, v) ==
    CASE fmt = "Int8" -> Int8_setAsInt32BE(m, a, v) [] fmt = "UInt8" -> UInt8_setAsInt32BE(m, a, v)
      [] fmt = "Int16" -> Int16_setAsInt32BE(m, a, v) [] fmt = "Int24" -> Int24_setAsInt32BE(m, a, v)
      [] fmt = "Int32" -> Int32_setAsInt32BE(m, a, v) [] fmt = "Float32" -> Float32_setAsInt32BE(m, a, v)

\* s.clear()
clearSample(m, fmt, a) ==
    CASE fmt = "Int8" -> Int8_clear(m, a) [] fmt = "UInt8" -> UInt8_clear(m, a)
      [] fmt = "Int16" -> Int16_clear(m, a) [] fmt = "Int24" -> Int24_clear(m, a)
      [] fmt = "Int32" -> Int32_clear(m, a) [] fmt = "Float32" -> Float32_clear(m, a)

clearMultiple(m, fmt, a, num) ==
    CASE fmt = "Int8" -> Int8_clearMultiple(m, a, num) [] fmt = "UInt8" -> UInt8_clearMultiple(m, a, num)
      [] fmt = "Int16" -> Int16_clearMultiple(m, a, num) [] fmt = "Int24" -> Int24_clearMultiple(m, a, num)
      [] fmt = "Int32" -> Int32_clearMultiple(m, a, num) [] fmt = "Float32" -> Float32_clearMultiple(m, a, num)

copyFromSameType(m, fmt, a, source) ==
    CASE fmt = "Int8" -> Int8_copyFromSameType(m, a, source)
      [] fmt = "UInt8" -> UInt8_copyFromSameType(m, a, source)
      [] fmt = "Int16" -> Int16_copyFromSameType(m, a, source)
      [] fmt = "Int24" -> Int24_copyFromSameType(m, a, source)
      [] fmt = "Int32" -> Int32_copyFromSameType(m, a, source)
      [] fmt = "Float32" -> Float32_copyFromSameType(m, a, source)

\* s.skip (numSamples): data += numSamples, in units of the sample type
skip(fmt, a, numSamples) == a + numSamples * bytesPerSample(fmt)

----------------------------------------------------------------------------
(* AudioData::Pointer <SampleFormat, Endianness, InterleavingType, Constness> *)

\* a Pointer: its four template arguments, the interleaving base's channel
\* count and the address in its SampleFormat member
Pointer(fmt, bigEndian, interleaved, numInterleavedChannels, isConst, sourceData) ==
    [fmt |-> fmt, bigEndian |-> bigEndian, interleaved |-> interleaved,
     numInterleavedChannels |-> numInterleavedChannels, isConst |-> isConst,
     data |-> sourceData]

\* two Pointers are of one C++ type
SameType(p, q) ==
    /\ p.fmt = q.fmt
    /\ p.bigEndian = q.bigEndian
    /\ p.interleaved = q.interleaved
    /\ p.isConst = q.isConst

\* advanceData with the channel count forgotten
advanceData_OneChannel(p) == [p EXCEPT !.data = skip(p.fmt, p.data, 1)]

\* InterleavingType::advanceData
advanceData(p) ==
    IF p.interleaved
    THEN [p EXCEPT !.data = skip(p.fmt, p.data, p.numInterleavedChannels)]
    ELSE [p EXCEPT !.data = skip(p.fmt, p.data, 1)]

\* advanceDataBy with the channel count forgotten
advanceDataBy_OneChannel(p, numSamples) == [p EXCEPT !.data = skip(p.fmt, p.data, numSamples)]

\* InterleavingType::advanceDataBy
advanceDataBy(p, numSamples) ==
    IF p.interleaved
    THEN [p EXCEPT !.data = skip(p.fmt, p.data, p.numInterleavedChannels * numSamples)]
    ELSE [p EXCEPT !.data = skip(p.fmt, p.data, numSamples)]

\* InterleavingType::getNumBytesBetweenSamples
getNumBytesBetweenSamples(p) ==
    IF p.interleaved
    THEN p.numInterleavedChannels * bytesPerSample(p.fmt)
    ELSE bytesPerSample(p.fmt)

\* the loop test written numSamples-- >= 0
LoopRuns_PostDecrement(numSamples) == numSamples >= 0

\* while (--numSamples >= 0): whether the body runs once more
LoopRuns(numSamples) == numSamples - 1 >= 0

\* Interleaved::clear with the channel count forgotten
Interleaved_clear_Contiguous(m, p, numSamples) == clearMultiple(m, p.fmt, p.data, numSamples)

RECURSIVE Interleaved_clear(_, _, _)
\* Interleaved::clear
Interleaved_clear(m, p, numSamples) ==
    IF LoopRuns(numSamples)
    THEN Interleaved_clear(clearSample(m, p.fmt, p.data),
                           [p EXCEPT !.data = skip(p.fmt, p.data, p.numInterleavedChannels)],
                           numSamples - 1)
    ELSE m

\* NonInterleaved::clear
NonInterleaved_clear(m, p, numSamples) == clearMultiple(m, p.fmt, p.data, numSamples)

\* Pointer::getAsFloat, through Endianness::getAsFloat
getAsFloat(m, p) ==
    IF p.bigEndian THEN getAsFloatBE(m, p.fmt, p.data) ELSE getAsFloatLE(m, p.fmt, p.data)

\* Pointer::getAsInt32, through Endianness::getAsInt32
getAsInt32(m, p) ==
    IF p.bigEndian THEN getAsInt32BE(m, p.fmt, p.data) ELSE getAsInt32LE(m, p.fmt, p.data)

\* Pointer::setAsFloat, through Endianness::setAsFloat
setAsFloat(m, p, newValue) ==
    IF p.bigEndian THEN setAsFloatBE(m, p.fmt, p.data, newValue)
    ELSE setAsFloatLE(m, p.fmt, p.data, newValue)

\* Pointer::setAsInt32, through Endianness::setAsInt32
setAsInt32(m, p, newValue) ==
    IF p.bigEndian THEN setAsInt32BE(m, p.fmt, p.data, newValue)
    ELSE setAsInt32LE(m, p.fmt, p.data, newValue)

\* copyFromLE taking the source's float for every destination
copyFromLE_ThroughFloat(m, dest, source) ==
    setAsFloatLE(m, dest.fmt, dest.data, getAsFloat(m, source))

\* SampleFormat::copyFromLE / copyFromBE: a Float32 destination takes the
\* source's float, every other destination the source's int32
copyFromLE(m, dest, source) ==
    IF isFloat(dest.fmt)
    THEN setAsFloatLE(m, dest.fmt, dest.data, getAsFloat(m, source))
    ELSE setAsInt32LE(m, dest.fmt, dest.data, getAsInt32(m, source))

copyFromBE(m, dest, source) ==
    IF isFloat(dest.fmt)
    THEN setAsFloatBE(m, dest.fmt, dest.data, getAsFloat(m, source))
    ELSE setAsInt32BE(m, dest.fmt, dest.data, getAsInt32(m, source))

\* Endianness::copyFrom (dest.data, source)
copyFrom(m, dest, source) ==
    IF dest.bigEndian THEN copyFromBE(m, dest, source) ELSE copyFromLE(m, dest, source)

RECURSIVE SameTypeLoop(_, _, _, _, _)
\* the loop of the convertSamples that takes a Pointer of its own type; it
\* ends with the memory and the addresses written, in order
SameTypeLoop(m, dest, source, numSamples, log) ==
    IF LoopRuns(numSamples)
    THEN SameTypeLoop(copyFromSameType(m, dest.fmt, dest.data, source.data),
                      advanceData(dest), advanceData(source),
                      numSamples - 1, Append(log, dest.data))
    ELSE [mem |-> m, log |-> log]

\* the direction test with its comparison turned round
CopiesForwards_Reversed(dest, source) ==
    \/ source.data # dest.data
    \/ getNumBytesBetweenSamples(source) <= getNumBytesBetweenSamples(dest)

\* the direction test sending equal strides backwards
CopiesForwards_Strict(dest, source) ==
    \/ source.data # dest.data
    \/ getNumBytesBetweenSamples(source) > getNumBytesBetweenSamples(dest)

\* the direction test that looks at the addresses only
CopiesForwards_OnlyApart(dest, source) == source.data # dest.data

\* the test that sends the templated convertSamples forwards
CopiesForwards(dest, source) ==
    \/ source.data # dest.data
    \/ getNumBytesBetweenSamples(source) >= getNumBytesBetweenSamples(dest)

RECURSIVE ForwardLoop(_, _, _, _, _)
\* the forward loop of the templated convertSamples
ForwardLoop(m, dest, source, numSamples, log) ==
    IF LoopRuns(numSamples)
    THEN ForwardLoop(copyFrom(m, dest, source),
                     advanceData(dest), advanceData(source),
                     numSamples - 1, Append(log, dest.data))
    ELSE [mem |-> m, log |-> log]

RECURSIVE BackwardLoop(_, _, _, _, _)
\* the backward loop of the templated convertSamples
BackwardLoop(m, dest, source, numSamples, log) ==
    IF LoopRuns(numSamples)
    THEN LET d == advanceDataBy(dest, -1)
             s == advanceDataBy(source, -1)
         IN  BackwardLoop(copyFrom(m, d, s), d, s, numSamples - 1, Append(log, d.data))
    ELSE [mem |-> m, log |-> log]

\* Pointer::convertSamples (Pointer source, int numSamples)
convertSamplesSameType(m, this, source, numSamples) ==
    SameTypeLoop(m, this, source, numSamples, <<>>)

\* Pointer::convertSamples (OtherPointerType source, int numSamples)
convertSamplesOtherType(m, this, source, numSamples) ==
    IF CopiesForwards(this, source)
    THEN ForwardLoop(m, this, source, numSamples, <<>>)
    ELSE BackwardLoop(m, advanceDataBy(this, numSamples),
                      advanceDataBy(source, numSamples), numSamples, <<>>)

\* overload resolution of dest.convertSamples (source, numSamples)
convertSamples(m, this, source, numSamples) ==
    IF SameType(this, source)
    THEN convertSamplesSameType(m, this, source, numSamples)
    ELSE convertSamplesOtherType(m, this, source, numSamples)

\* Pointer::clearSamples
clearSamples(m, this, numSamples) ==
    IF this.interleaved
    THEN Interleaved_clear(m, this, numSamples)
    ELSE NonInterleaved_clear(m, this, numSamples)

\* addBytesToPointer
addBytesToPointer(basePointer, bytes) == basePointer + bytes

----------------------------------------------------------------------------
(* The caller's side: buffers, the Pointer types it can instantiate *)

\* the floats the initial buffers hold
ImageFloats ==
    <<Float(0, 125, 2152826), Float(1, 126, 3662161), Float(0, 127, 6140887),
      Float(1, 127, 1694976), Float(0, 122, 7105889), Float(1, 126, 6978743)>>

\* the initial bytes: 4-byte words, by turns a little-endian and a big-endian
\* float, so that both byte orders and every integer format read varied samples
MemImage ==
    [a \in 0..(MemSize - 1) |->
        LET j == a \div 4
            word == FloatToWord(ImageFloats[((j \div 2) % Len(ImageFloats)) + 1])
        IN  IF j % 2 = 0 THEN word[(a % 4) + 1] ELSE word[4 - (a % 4)]]

Layouts == {<<FALSE, 1>>} \cup {<<TRUE, c>> : c \in 1..MaxChans}

\* every Pointer type bound to the address a
PointersAt(a) ==
    {Pointer(fmt, be, lay[1], lay[2], isConst, a) :
        fmt \in Formats, be \in BOOLEAN, lay \in Layouts, isConst \in BOOLEAN}

NoPointer == Pointer("Int8", FALSE, FALSE, 1, TRUE, 0)

\* the record of an invoked operation
Op(name, dest, source, numSamples, destSubChannel, sourceSubChannel, fval, ival) ==
    [name |-> name, dest |-> dest, source |-> source, numSamples |-> numSamples,
     destSubChannel |-> destSubChannel, sourceSubChannel |-> sourceSubChannel,
     fval |-> fval, ival |-> ival]

NoOp == Op("none", NoPointer, NoPointer, 0, 0, 0, FZero, 0)

NoRet == [f |-> FZero, i |-> 0]

\* the floats a caller passes to setAsFloat: 0, -0, and both signs of
\* 0.25, 0.5, 0.75, 1, 1.5, 2, the float below 1, 1 - 2^-9, 1 - 2^-17,
\* 2^-8 and 3 * 2^-8 (halfway between two 8-bit samples), 2^-28, 0.3141592
FloatInputs ==
    LET magnitudes ==
            {<<125, 0>>, <<126, 0>>, <<126, 4194304>>, <<127, 0>>, <<127, 4194304>>, <<128, 0>>,
             <<126, 8388607>>, <<126, 8355840>>, <<126, 8388480>>,
             <<119, 0>>, <<120, 4194304>>, <<99, 0>>, <<125, 2152826>>}
    IN  {FZero, Float(1, 0, 0)} \cup {Float(s, em[1], em[2]) : s \in {0, 1}, em \in magnitudes}

\* the ints a caller passes to setAsInt32
IntInputs ==
    {0, 1, -1, INT_MAX, INT_MIN, 1073741824 + 65536 + 256 + 1, -(1073741824 + 65536 + 256 + 1),
     32768, 8388608 + 128, -129}

\* the sources a destination is converted from: a NonConst Pointer of any type,
\* or a Const Pointer of the destination's format and byte order (constness
\* only selects the overload of convertSamples)
SourcesFor(dest) ==
    {p \in PointersAt(0) : ~p.isConst \/ (p.fmt = dest.fmt /\ p.bigEndian = dest.bigEndian)}

Init ==
    /\ mem = MemImage
    /\ hostBigEndian \in BOOLEAN
    /\ roundWraps \in BOOLEAN
    /\ pc = "ready"
    /\ op = NoOp
    /\ mem0 = mem
    /\ ret = NoRet
    /\ writeLog = <<>>

\* an operation that writes: the new memory and the record of the call
Writes(name, m, log, o) ==
    /\ pc' = "done"
    /\ mem' = m
    /\ mem0' = mem
    /\ writeLog' = log
    /\ op' = o
    /\ UNCHANGED <<hostBigEndian, roundWraps, ret>>

\* an operation that reads: what it returned and the record of the call
Reads(r, o) ==
    /\ pc' = "done"
    /\ ret' = r
    /\ mem0' = mem
    /\ op' = o
    /\ UNCHANGED <<mem, hostBigEndian, roundWraps, writeLog>>

\* dest.convertSamples (source, numSamples): the source at the start of the
\* first buffer, the destination there too or at the start of the second
\* buffer; static_jassert refuses a Const destination
PointerConvertSamples ==
    /\ pc = "ready"
    /\ \E dest \in PointersAt(0) \cup PointersAt(BufSize) :
       \E source \in SourcesFor(dest), numSamples \in (-1)..MaxN :
        /\ ~dest.isConst
        /\ \E out \in {convertSamples(mem, dest, source, numSamples)} :
               Writes("convertSamples", out.mem, out.log,
                      Op("convertSamples", dest, source, numSamples, 0, 0, FZero, 0))

\* p.clearSamples (numSamples); no static_jassert guards it
PointerClearSamples ==
    /\ pc = "ready"
    /\ \E p \in PointersAt(0), numSamples \in 0..MaxN :
        Writes("clearSamples", clearSamples(mem, p, numSamples), <<>>,
               Op("clearSamples", p, NoPointer, numSamples, 0, 0, FZero, 0))

\* p.setAsFloat (newValue); static_jassert refuses a Const pointer
PointerSetAsFloat ==
    /\ pc = "ready"
    /\ \E p \in PointersAt(0), newValue \in FloatInputs :
        /\ ~p.isConst
        /\ Writes("setAsFloat", setAsFloat(mem, p, newValue), <<>>,
                  Op("setAsFloat", p, NoPointer, 0, 0, 0, newValue, 0))

\* p.setAsInt32 (newValue); static_jassert refuses a Const pointer
PointerSetAsInt32 ==
    /\ pc = "ready"
    /\ \E p \in PointersAt(0), newValue \in IntInputs :
        /\ ~p.isConst
        /\ Writes("setAsInt32", setAsInt32(mem, p, newValue), <<>>,
                  Op("setAsInt32", p, NoPointer, 0, 0, 0, FZero, newValue))

\* p.getAsFloat()
PointerGetAsFloat ==
    /\ pc = "ready"
    /\ \E p \in PointersAt(0) :
        Reads([f |-> getAsFloat(mem, p), i |-> 0],
              Op("getAsFloat", p, NoPointer, 0, 0, 0, FZero, 0))

\* p.getAsInt32()
PointerGetAsInt32 ==
    /\ pc = "ready"
    /\ \E p \in PointersAt(0) :
        Reads([f |-> FZero, i |-> getAsInt32(mem, p)],
              Op("getAsInt32", p, NoPointer, 0, 0, 0, FZero, 0))

\* p.getAsFloat() on the sample that a setAsFloat or a setAsInt32 through p
\* has just written
ReadBackAsFloat ==
    /\ pc = "done"
    /\ op.name \in {"setAsFloat", "setAsInt32"}
    /\ pc' = "readFloat"
    /\ ret' = [f |-> getAsFloat(mem, op.dest), i |-> 0]
    /\ UNCHANGED <<mem, hostBigEndian, roundWraps, op, mem0, writeLog>>

\* p.getAsInt32() on the sample that a setAsFloat or a setAsInt32 through p
\* has just written
ReadBackAsInt32 ==
    /\ pc = "done"
    /\ op.name \in {"setAsFloat", "setAsInt32"}
    /\ pc' = "readInt"
    /\ ret' = [f |-> FZero, i |-> getAsInt32(mem, op.dest)]
    /\ UNCHANGED <<mem, hostBigEndian, roundWraps, op, mem0, writeLog>>

\* the cursors a stepping operator is invoked on: a Pointer just bound to the
\* start of the second buffer, or the one the last step left, with the Pointer
\* as it was bound and the net number of samples moved since
Cursors ==
    IF pc = "ready"
    THEN {[cursor |-> p, bound |-> p, net |-> 0] : p \in PointersAt(BufSize)}
    ELSE {[cursor |-> op.dest, bound |-> op.source, net |-> op.numSamples]}

\* a stepping operator leaves the Pointer moved; it touches nothing else
Stepped(name, c, moved, by) ==
    /\ pc' = "stepped"
    /\ op' = Op(name, moved, c.bound, c.net + by, 0, 0, FZero, by)
    /\ UNCHANGED <<mem, hostBigEndian, roundWraps, mem0, ret, writeLog>>

\* ++p
PointerIncrement ==
    /\ pc \in {"ready", "stepped"}
    /\ \E c \in Cursors :
        /\ c.net < MaxN
        /\ Stepped("operator++", c, advanceData(c.cursor), 1)

\* --p
PointerDecrement ==
    /\ pc \in {"ready", "stepped"}
    /\ \E c \in Cursors :
        /\ c.net > -MaxN
        /\ Stepped("operator--", c, advanceDataBy(c.cursor, -1), -1)

\* p += samplesToJump
PointerPlusEquals ==
    /\ pc \in {"ready", "stepped"}
    /\ \E c \in Cursors, samplesToJump \in (-MaxN)..MaxN :
        /\ c.net + samplesToJump \in (-MaxN)..MaxN
        /\ Stepped("operator+=", c, advanceDataBy(c.cursor, samplesToJump), samplesToJump)

Next ==
    \/ PointerConvertSamples
    \/ PointerClearSamples
    \/ PointerSetAsFloat
    \/ PointerSetAsInt32
    \/ PointerGetAsFloat
    \/ PointerGetAsInt32
    \/ ReadBackAsFloat
    \/ ReadBackAsInt32
    \/ PointerIncrement
    \/ PointerDecrement
    \/ PointerPlusEquals

Spec == Init /\ [][Next]_vars

----------------------------------------------------------------------------
(* Buffers of arbitrary raw samples *)

\* the words the raw buffer repeats: every word of the bytes 00, 7f, 80, ff
\* (NaNs, infinities and both ends of every integer range among them) and the
\* floats of FloatInputs
RawWords ==
    LET bytes == {0, 127, 128, 255}
    IN  {<<a, b, c, d>> : a \in bytes, b \in bytes, c \in bytes, d \in bytes}
            \cup {FloatToWord(f) : f \in FloatInputs}

\* a first buffer of the word raw, by turns forwards and byte-reversed, and
\* the second buffer of MemImage
RawImage(raw) ==
    [a \in 0..(MemSize - 1) |->
        IF a < BufSize
        THEN IF (a \div 4) % 2 = 0 THEN raw[(a % 4) + 1] ELSE raw[4 - (a % 4)]
        ELSE MemImage[a]]

InitRaw ==
    /\ \E raw \in RawWords : mem = RawImage(raw)
    /\ hostBigEndian \in BOOLEAN
    /\ roundWraps \in BOOLEAN
    /\ pc = "ready"
    /\ op = NoOp
    /\ mem0 = mem
    /\ ret = NoRet
    /\ writeLog = <<>>

\* dest.convertSamples (source, numSamples) from the raw buffer into the second
\* buffer, between Pointers of one format and one byte order: of one type (the
\* overload that copies) or of different layout or constness (the templated
\* one); the layouts are planar and interleaved with the most channels
RawConvertSamples ==
    /\ pc = "ready"
    /\ \E fmt \in Formats, be \in BOOLEAN,
          dlay \in {<<FALSE, 1>>, <<TRUE, MaxChans>>}, slay \in {<<FALSE, 1>>, <<TRUE, MaxChans>>},
          isConst \in BOOLEAN, numSamples \in {MaxN} :
        LET dest == Pointer(fmt, be, dlay[1], dlay[2], FALSE, BufSize)
            source == Pointer(fmt, be, slay[1], slay[2], isConst, 0)
        IN  \E out \in {convertSamples(mem, dest, source, numSamples)} :
                Writes("convertSamples", out.mem, out.log,
                       Op("convertSamples", dest, source, numSamples, 0, 0, FZero, 0))

\* the scenario's first step: MaxN big-endian Int16 samples at the start of the
\* raw buffer converted to floats in the second buffer
EndianToFloat ==
    /\ pc = "ready"
    /\ \E be \in BOOLEAN :
        LET source == Pointer("Int16", TRUE, FALSE, 1, TRUE, 0)
            dest == Pointer("Float32", be, FALSE, 1, FALSE, BufSize)
            out == convertSamples(mem, dest, source, MaxN)
        IN  /\ mem' = out.mem
            /\ op' = Op("toFloat", dest, source, MaxN, 0, 0, FZero, 0)
    /\ pc' = "floats"
    /\ mem0' = mem
    /\ UNCHANGED <<hostBigEndian, roundWraps, ret, writeLog>>

\* its second step: those floats converted to little-endian Int16 samples in
\* the second half of the first buffer
EndianToInt16 ==
    /\ pc = "floats"
    /\ LET source == [op.dest EXCEPT !.isConst = TRUE]
           dest == Pointer("Int16", FALSE, FALSE, 1, FALSE, BufSize \div 2)
           out == convertSamples(mem, dest, source, MaxN)
       IN  /\ mem' = out.mem
           /\ op' = Op("toInt16", dest, source, MaxN, 0, 0, FZero, 0)
    /\ pc' = "int16s"
    /\ UNCHANGED <<hostBigEndian, roundWraps, mem0, ret, writeLog>>

RECURSIVE SwapSamples(_, _, _)
\* ByteOrder::swap on each of numSamples 16-bit words from address a
SwapSamples(m, a, numSamples) ==
    IF numSamples <= 0 THEN m
    ELSE SwapSamples(Store(m, a, swap(Load(m, a, 2))), a + 2, numSamples - 1)

\* its last step: the two bytes of every result sample swapped
EndianSwapBytes ==
    /\ pc = "int16s"
    /\ mem' = SwapSamples(mem, op.dest.data, op.numSamples)
    /\ pc' = "swapped"
    /\ UNCHANGED <<hostBigEndian, roundWraps, op, mem0, ret, writeLog>>

\* p.getAsFloat() on a raw sample at the start of the raw buffer
RawGetAsFloat ==
    /\ pc = "ready"
    /\ \E fmt \in Formats, be \in BOOLEAN :
        LET p == Pointer(fmt, be, FALSE, 1, TRUE, 0)
        IN  Reads([f |-> getAsFloat(mem, p), i |-> 0],
                  Op("getAsFloat", p, NoPointer, 0, 0, 0, FZero, 0))

\* p.getAsInt32() on a raw sample at the start of the raw buffer; what a
\* Float32 NaN reads as is not defined, and is any of the ints builds give
RawGetAsInt32 ==
    /\ pc = "ready"
    /\ \E fmt \in Formats, be \in BOOLEAN :
        LET p == Pointer(fmt, be, FALSE, 1, TRUE, 0)
        IN  \E i \in (IF isFloat(fmt) /\ IsNaN(getAsFloat(mem, p))
                      THEN {INT_MIN, 0, INT_MAX}
                      ELSE {getAsInt32(mem, p)}) :
                Reads([f |-> FZero, i |-> i],
                      Op("getAsInt32", p, NoPointer, 0, 0, 0, FZero, 0))

\* dest.convertSamples (source, MaxN): integer samples at the start of the raw
\* buffer converted to floats in the second buffer
RawToFloat ==
    /\ pc = "ready"
    /\ \E fmt \in Formats \ {"Float32"}, sbe \in BOOLEAN, dbe \in BOOLEAN :
        LET source == Pointer(fmt, sbe, FALSE, 1, TRUE, 0)
            dest == Pointer("Float32", dbe, FALSE, 1, FALSE, BufSize)
        IN  \E out \in {convertSamples(mem, dest, source, MaxN)} :
                Writes("convertSamples", out.mem, out.log,
                       Op("convertSamples", dest, source, MaxN, 0, 0, FZero, 0))

\* dest.convertSamples (source, MaxN) between Pointers of one multi-byte format
\* and opposite byte orders: from the raw buffer into the second buffer
RawSwapOrder ==
    /\ pc = "ready"
    /\ \E fmt \in {"Int16", "Int24", "Int32", "Float32"}, be \in BOOLEAN :
        LET source == Pointer(fmt, be, FALSE, 1, TRUE, 0)
            dest == Pointer(fmt, ~be, FALSE, 1, FALSE, BufSize)
        IN  \E out \in {convertSamples(mem, dest, source, MaxN)} :
                Writes("convertSamples", out.mem, out.log,
                       Op("convertSamples", dest, source, MaxN, 0, 0, FZero, 0))

\* the way back: what RawSwapOrder wrote, converted to the byte order it came
\* from, into the second half of the first buffer
RawSwapBack ==
    /\ pc = "done"
    /\ op.name = "convertSamples"
    /\ op.dest.fmt = op.source.fmt
    /\ op.dest.bigEndian # op.source.bigEndian
    /\ LET source == [op.dest EXCEPT !.isConst = TRUE]
           dest == [op.source EXCEPT !.isConst = FALSE, !.data = BufSize \div 2]
       IN  \E out \in {convertSamples(mem, dest, source, op.numSamples)} :
               /\ mem' = out.mem
               /\ writeLog' = out.log
               /\ op' = Op("convertSamples", dest, source, op.numSamples, 0, 0, FZero, 0)
    /\ pc' = "restored"
    /\ UNCHANGED <<hostBigEndian, roundWraps, mem0, ret>>

NextRaw ==
    \/ RawConvertSamples
    \/ RawGetAsFloat
    \/ RawGetAsInt32
    \/ RawToFloat
    \/ RawSwapOrder
    \/ RawSwapBack
    \/ EndianToFloat
    \/ EndianToInt16
    \/ EndianSwapBytes

SpecRaw == InitRaw /\ [][NextRaw]_vars

----------------------------------------------------------------------------
(* AudioData::ConverterInstance <SourceSampleType, DestSampleType> *)

\* ConverterInstance (numSourceChannels, numDestChannels)
ConverterInstance(SourceSampleType, DestSampleType, numSourceChannels, numDestChannels) ==
    [SourceSampleType |-> SourceSampleType, DestSampleType |-> DestSampleType,
     sourceChannels |-> numSourceChannels, destChannels |-> numDestChannels]

\* Pointer (sourceData, numInterleavedChannels): NonInterleaved (const int)
\* drops the channel count
PointerWithChannels(type, sourceData, numInterleavedChannels) ==
    Pointer(type.fmt, type.bigEndian, type.interleaved,
            IF type.interleaved THEN numInterleavedChannels ELSE 1,
            type.isConst, sourceData)

\* ConverterInstance::convertSamples (dest, source, numSamples)
Converter_convertSamples(m, this, dest, source, numSamples) ==
    LET s == PointerWithChannels(this.SourceSampleType, source, this.sourceChannels)
        d == PointerWithChannels(this.DestSampleType, dest, this.destChannels)
    IN  convertSamples(m, d, s, numSamples)

\* the sub-channel overload with the sub-channel offsets left out
Converter_convertSubChannel_NoOffset(m, this, dest, destSubChannel, source, sourceSubChannel, numSamples) ==
    Converter_convertSamples(m, this, dest, source, numSamples)

\* ConverterInstance::convertSamples (dest, destSubChannel, source,
\* sourceSubChannel, numSamples)
Converter_convertSubChannel(m, this, dest, destSubChannel, source, sourceSubChannel, numSamples) ==
    LET s == PointerWithChannels(this.SourceSampleType,
                 addBytesToPointer(source, sourceSubChannel * bytesPerSample(this.SourceSampleType.fmt)),
                 this.sourceChannels)
        d == PointerWithChannels(this.DestSampleType,
                 addBytesToPointer(dest, destSubChannel * bytesPerSample(this.DestSampleType.fmt)),
                 this.destChannels)
    IN  convertSamples(m, d, s, numSamples)

\* the converters a caller can instantiate, their Pointer types given as
\* Pointers bound nowhere: the source is read through a const void*, so
\* SourceSampleType is Const; convertSamples' static_jassert makes
\* DestSampleType NonConst
Converters ==
    LET types(isConst) ==
            {Pointer(fmt, be, interleaved, 1, isConst, 0) :
                fmt \in Formats, be \in BOOLEAN, interleaved \in BOOLEAN}
    IN  {ConverterInstance(st, dt, sc, dc) :
            st \in types(TRUE), dt \in types(FALSE), sc \in 1..MaxChans, dc \in 1..MaxChans}

\* converter.convertSamples (dest, source, numSamples), from the first buffer
\* into the second; the record keeps the Pointers at the starts of the buffers
ConverterConvertSamples ==
    /\ pc = "ready"
    /\ \E this \in Converters, numSamples \in {1, MaxN} :
        \E out \in {Converter_convertSamples(mem, this, BufSize, 0, numSamples)} :
            Writes("Converter::convertSamples", out.mem, out.log,
                   Op("Converter::convertSamples",
                      PointerWithChannels(this.DestSampleType, BufSize, this.destChannels),
                      PointerWithChannels(this.SourceSampleType, 0, this.sourceChannels),
                      numSamples, 0, 0, FZero, 0))

\* converter.convertSamples (dest, destSubChannel, source, sourceSubChannel,
\* numSamples); the jassert is the guard
ConverterConvertSubChannel ==
    /\ pc = "ready"
    /\ \E this \in Converters, numSamples \in {MaxN},
          destSubChannel \in 0..(MaxChans - 1), sourceSubChannel \in 0..(MaxChans - 1) :
        /\ destSubChannel < this.destChannels /\ sourceSubChannel < this.sourceChannels
        /\ \E out \in {Converter_convertSubChannel(mem, this, BufSize, destSubChannel,
                                                    0, sourceSubChannel, numSamples)} :
               Writes("Converter::convertSubChannel", out.mem, out.log,
                      Op("Converter::convertSubChannel",
                         PointerWithChannels(this.DestSampleType, BufSize, this.destChannels),
                         PointerWithChannels(this.SourceSampleType, 0, this.sourceChannels),
                         numSamples, destSubChannel, sourceSubChannel, FZero, 0))

NextConverter ==
    \/ ConverterConvertSamples
    \/ ConverterConvertSubChannel

SpecConverter == Init /\ [][NextConverter]_vars

----------------------------------------------------------------------------
(* What the claims speak of *)

Converted == pc = "done" /\ op.name = "convertSamples"

\* the source and the destination start at one address / lie in separate buffers
SameStart == op.dest.data = op.source.data

Separate == op.dest.data >= BufSize /\ op.source.data < BufSize

\* the bytes of sample i of the stream p points to, in memory m
SampleBytes(m, p, i) ==
    [j \in 1..bytesPerSample(p.fmt) |-> m[p.data + i * getNumBytesBetweenSamples(p) + j - 1]]

\* p moved to its sample i
AtSample(p, i) == [p EXCEPT !.data = p.data + i * getNumBytesBetweenSamples(p)]

\* the addresses of the first n sample slots of p
Slots(p, n) ==
    {p.data + i * getNumBytesBetweenSamples(p) + j :
        i \in 0..(n - 1), j \in 0..(bytesPerSample(p.fmt) - 1)}

\* the destination of the operation, moved to the start of the second buffer
Elsewhere(p) == [p EXCEPT !.data = BufSize + (p.data % BufSize)]

\* C1: an in-place conversion through the templated convertSamples, source and
\* destination at the same address and the destination's stride the larger,
\* leaves in every destination sample what the same call leaves in a
\* destination in a separate buffer.
C1_InPlaceWidening ==
    (/\ Converted
     /\ ~SameType(op.dest, op.source)
     /\ SameStart
     /\ getNumBytesBetweenSamples(op.dest) > getNumBytesBetweenSamples(op.source)
     /\ op.numSamples >= 0)
    => LET apart == Elsewhere(op.dest)
           ref == convertSamples(mem0, apart, op.source, op.numSamples).mem
       IN  \A i \in 0..(op.numSamples - 1) :
               SampleBytes(mem, op.dest, i) = SampleBytes(ref, apart, i)

\* C1's case: 16-bit samples widened in place to 32-bit ones, where a forward
\* pass would have overwritten samples it had not read yet
C1_Witness ==
    /\ Converted
    /\ SameStart
    /\ op.source.fmt = "Int16" /\ ~op.source.interleaved
    /\ op.dest.fmt = "Int32" /\ ~op.dest.interleaved
    /\ op.numSamples = MaxN
    /\ ForwardLoop(mem0, op.dest, op.source, op.numSamples, <<>>).mem # mem

\* C2: between separate buffers, destination sample i is the one-sample
\* conversion of source sample i for every i < n, and no byte outside those n
\* destination slots (other channels, later samples, the source) changes.
C2_IndexWiseMap ==
    (Converted /\ Separate /\ op.numSamples >= 0)
    => /\ \A i \in 0..(op.numSamples - 1) :
              SampleBytes(mem, op.dest, i) =
                  SampleBytes(copyFrom(mem0, AtSample(op.dest, i), AtSample(op.source, i)),
                              op.dest, i)
       /\ \A a \in (0..(MemSize - 1)) \ Slots(op.dest, op.numSamples) : mem[a] = mem0[a]

\* C2's case: MaxN samples between two interleaved streams of different formats
C2_Witness ==
    /\ Converted
    /\ Separate
    /\ op.numSamples = MaxN
    /\ op.dest.interleaved /\ op.dest.numInterleavedChannels = MaxChans
    /\ op.source.interleaved /\ op.source.numInterleavedChannels = MaxChans
    /\ op.dest.fmt = "Int24" /\ op.source.fmt = "Int16"
    /\ \A i \in 0..(MaxN - 1) : SampleBytes(mem, op.dest, i) # SampleBytes(mem0, op.dest, i)

\* C10: convertSamples with numSamples <= 0 ends and writes nothing, whichever
\* overload and whichever direction it takes.
C10_NothingToConvert ==
    (Converted /\ op.numSamples <= 0) => (mem = mem0 /\ writeLog = <<>>)

\* C10's case: a negative count on the backward path
C10_Witness ==
    /\ Converted
    /\ op.numSamples < 0
    /\ ~SameType(op.dest, op.source)
    /\ ~CopiesForwards(op.dest, op.source)

----------------------------------------------------------------------------
(* Samples and floats as exact numbers *)

\* sample widths in bits
SampleBits(fmt) == 8 * bytesPerSample(fmt)

\* the signed value of the integer sample p points to (a UInt8's is its byte
\* less 128): the sample's bits read in p's byte order
SignedSample(m, p) ==
    LET w == bytesPerSample(p.fmt)
        word == [i \in 1..w |-> IF p.bigEndian THEN m[p.data + w - i] ELSE m[p.data + i - 1]]
    IN  IF p.fmt = "UInt8" THEN m[p.data] - 128 ELSE ToSigned(word)

\* f * 2^28 for a float that is a multiple of 2^-28 of magnitude at most 4
Q28(f) == roundToInt(f, 28)

Abs(x) == IF x < 0 THEN -x ELSE x

IsPositive(f) == f.s = 0 /\ (f.e # 0 \/ f.m # 0)

IsNegative(f) == f.s = 1 /\ (f.e # 0 \/ f.m # 0)

\* -1.0 <= f <= 1.0
InUnitRange(f) == ~FloatLess(f, FMinusOne) /\ ~FloatLess(FOne, f)

WroteFloat == pc = "done" /\ op.name = "setAsFloat"

\* C3: setAsFloat on an integer format clamps its argument to [-1, 1] and then
\* rounds it to the nearest sample: above 1.0 it stores what 1.0 stores, below
\* -1.0 what -1.0 stores, the stored sample is the rounded clamped value kept
\* inside the format's signed range, and it never has the opposite sign.
C3_ClampThenQuantize ==
    (WroteFloat /\ ~isFloat(op.dest.fmt))
    => LET p == op.dest
           v == op.fval
           k == SampleBits(p.fmt) - 1
           top == maxValue(p.fmt)
           clamped == jlimitFloat(FMinusOne, FOne, v)
           stored == SignedSample(mem, p)
       IN  /\ FloatLess(FOne, v) => mem = setAsFloat(mem0, p, FOne)
           /\ FloatLess(v, FMinusOne) => mem = setAsFloat(mem0, p, FMinusOne)
           /\ IsPositive(v) => stored >= 0
           /\ IsNegative(v) => stored <= 0
           /\ clamped = FOne => stored = top
           /\ clamped = FMinusOne => stored \in {-top, (-top) - 1}
           /\ (clamped # FOne /\ clamped # FMinusOne)
                  => stored = jlimit(-top, top, roundToInt(clamped, k))

\* C4: a Const Pointer refuses setAsFloat, setAsInt32, clearSamples and
\* convertSamples into it, so nothing invoked on a Const Pointer changes a byte.
C4_ConstRefusesWrites ==
    (pc = "done" /\ op.dest.isConst)
    => /\ op.name \notin {"setAsFloat", "setAsInt32", "clearSamples", "convertSamples"}
       /\ mem = mem0

\* C7: for v in [-1, 1], the endpoints included, getAsFloat after setAsFloat (v)
\* on the same sample is within one resolution step of the format of v
\* (resolution / 2^31, that is resolution / 8 in units of 2^-28).
C7_RoundTrip ==
    (pc = "readFloat" /\ op.name = "setAsFloat" /\ InUnitRange(op.fval))
    => Abs(Q28(ret.f) - Q28(op.fval)) <= resolution(op.dest.fmt) \div 8

\* C6: getAsInt32 on a Float32 sample lies in [-0x7fffffff, 0x7fffffff]; a
\* stored float <= -1.0 reads as exactly -0x7fffffff and one >= 1.0 as exactly
\* 0x7fffffff.
C6_Float32ClipsToInt32 ==
    (pc = "readInt" /\ op.name = "setAsFloat" /\ op.dest.fmt = "Float32")
    => /\ ret.i >= -INT_MAX
       /\ ret.i <= INT_MAX
       /\ ~FloatLess(FMinusOne, op.fval) => ret.i = -INT_MAX
       /\ ~FloatLess(op.fval, FOne) => ret.i = INT_MAX

\* C5: converting n samples between two Pointers of one format and one byte
\* order, through either overload of convertSamples, leaves in each destination
\* sample the very bytes of the corresponding source sample, whatever they are.
C5_SameRepresentationCopy ==
    (/\ Converted
     /\ op.dest.fmt = op.source.fmt
     /\ op.dest.bigEndian = op.source.bigEndian
     /\ Separate)
    => \A i \in 0..(op.numSamples - 1) :
           SampleBytes(mem, op.dest, i) = SampleBytes(mem0, op.source, i)

\* C5's case: Float32 samples that are NaNs, through the templated overload
C5_Witness ==
    /\ Converted
    /\ op.dest.fmt = "Float32" /\ op.source.fmt = "Float32"
    /\ op.dest.bigEndian = op.source.bigEndian
    /\ ~SameType(op.dest, op.source)
    /\ op.numSamples = MaxN
    /\ IsNaN(getAsFloat(mem0, op.source))
    /\ SampleBytes(mem, op.dest, 0) # SampleBytes(mem0, op.dest, 0)

EndianSwapped == pc = "swapped"

\* C8: big-endian Int16 samples converted to floats, those converted to
\* little-endian Int16 samples, and each result byte-swapped, are the bytes
\* of the original samples, whatever 16-bit values they hold.
C8_EndianSymmetry ==
    EndianSwapped => \A a \in 0..(2 * op.numSamples - 1) : mem[op.dest.data + a] = mem0[a]

\* C8's case: the first sample is 0x8000
C8_Witness ==
    /\ EndianSwapped
    /\ mem0[0] = 128 /\ mem0[1] = 0

\* sample i of sub-channel c of the interleaved stream starting where p points
SubChannelSample(p, c, i) ==
    [p EXCEPT !.data = p.data + (c + i * p.numInterleavedChannels) * bytesPerSample(p.fmt)]

ConvertedSubChannel == pc = "done" /\ op.name = "Converter::convertSubChannel"

\* C9: between interleaved streams, the sub-channel overload writes into
\* destination sample destSubChannel + i * destChannels the conversion of
\* source sample sourceSubChannel + i * sourceChannels, for every i < n, and
\* changes no other byte of the destination buffer and no byte of the source.
C9_SubChannelOnly ==
    (ConvertedSubChannel /\ op.dest.interleaved /\ op.source.interleaved)
    => LET w == bytesPerSample(op.dest.fmt)
           d(i) == SubChannelSample(op.dest, op.destSubChannel, i)
           s(i) == SubChannelSample(op.source, op.sourceSubChannel, i)
           written == {d(i).data + j : i \in 0..(op.numSamples - 1), j \in 0..(w - 1)}
       IN  /\ \A i \in 0..(op.numSamples - 1) :
                  Load(mem, d(i).data, w) = Load(copyFrom(mem0, d(i), s(i)), d(i).data, w)
           /\ \A a \in (0..(MemSize - 1)) \ written : mem[a] = mem0[a]

\* C9's case: the last channel of a MaxChans-channel Int16 stream converted
\* into the last channel of a MaxChans-channel Float32 stream
C9_Witness ==
    /\ ConvertedSubChannel
    /\ op.dest.interleaved /\ op.source.interleaved
    /\ op.dest.numInterleavedChannels = MaxChans
    /\ op.source.numInterleavedChannels = MaxChans
    /\ op.destSubChannel = MaxChans - 1
    /\ op.sourceSubChannel = MaxChans - 1
    /\ op.source.fmt = "Int16" /\ op.dest.fmt = "Float32"
    /\ op.numSamples = MaxN
    /\ \A i \in 0..(MaxN - 1) :
           LET a == SubChannelSample(op.dest, op.destSubChannel, i).data
           IN  Load(mem, a, 4) # Load(mem0, a, 4)


ReadInt32 == pc = "done" /\ op.name = "getAsInt32"

\* C11: getAsInt32 on an integer sample of w bits returns the signed sample
\* value (for UInt8 the byte less 128) times 2^(32-w): the sample's top bit
\* is bit 31 and the low 32-w bits are zero.
C11_LeftJustified ==
    (ReadInt32 /\ ~isFloat(op.dest.fmt))
    => LET low == Pow2(32 - SampleBits(op.dest.fmt))
       IN  /\ ret.i = SignedSample(mem, op.dest) * low
           /\ ret.i % low = 0
           /\ ret.i >= INT_MIN /\ ret.i <= INT_MAX

\* C11's case: the big-endian 24-bit sample 0x80007f, read as 0x80007f00
C11_Witness ==
    /\ ReadInt32
    /\ op.dest.fmt = "Int24" /\ op.dest.bigEndian
    /\ mem[0] = 128 /\ mem[1] = 0 /\ mem[2] = 127
    /\ ret.i = INT_MIN + 32512


ReadFloat == pc = "done" /\ op.name = "getAsFloat"

\* the float stored where p points, its bytes read in p's byte order
StoredFloat(m, p) ==
    WordToFloat([i \in 1..4 |-> IF p.bigEndian THEN m[p.data + 4 - i] ELSE m[p.data + i - 1]])

\* f is the float of s / 2^(w-1) and lies in [-1, 1]: exactly for w <= 24, and
\* for w = 32 the nearest float (within 2^-25, that is 8 units of 2^-28)
Normalized(f, s, w) ==
    /\ InUnitRange(f)
    /\ IF w <= 24 THEN Q28(f) = s * Pow2(29 - w)
       ELSE Abs(Q28(f) - (s \div 8)) <= 9

\* the scenario's expectation for the 16-bit sample s, within 1/32768 (8192
\* units of 2^-28): 0.0, 1.0, -1.0 and -0.0000305 (8187 units)
ScenarioFloat(f, s) ==
    /\ s = 0 => Abs(Q28(f)) <= 8192
    /\ s = 32767 => Abs(Q28(f) - 268435456) <= 8192
    /\ s = -32768 => Abs(Q28(f) + 268435456) <= 8192
    /\ s = -1 => Abs(Q28(f) + 8187) <= 8192

\* C12: getAsFloat on an integer sample of w bits returns the signed sample
\* value over 2^(w-1), a float in [-1, 1] for every raw value; converting
\* integer samples to Float32 stores those floats, and the little-endian Int16
\* samples 0x0000, 0x7FFF, 0x8000, 0xFFFF become floats within 1/32768 of
\* 0.0, 1.0, -1.0, -0.0000305.
C12_NormalizedFloat ==
    /\ (ReadFloat /\ ~isFloat(op.dest.fmt))
           => Normalized(ret.f, SignedSample(mem, op.dest), SampleBits(op.dest.fmt))
    /\ (Converted /\ Separate /\ isFloat(op.dest.fmt) /\ ~isFloat(op.source.fmt))
           => \A i \in 0..(op.numSamples - 1) :
                  LET f == StoredFloat(mem, AtSample(op.dest, i))
                      s == SignedSample(mem0, AtSample(op.source, i))
                  IN  /\ Normalized(f, s, SampleBits(op.source.fmt))
                      /\ (op.source.fmt = "Int16" /\ ~op.source.bigEndian) => ScenarioFloat(f, s)

\* C12's case: the little-endian Int16 samples 0x7FFF and 0x8000 converted to
\* the floats 32767/32768 and -1.0
C12_Witness ==
    /\ Converted
    /\ op.source.fmt = "Int16" /\ ~op.source.bigEndian
    /\ op.dest.fmt = "Float32"
    /\ mem0[0] = 255 /\ mem0[1] = 127 /\ mem0[2] = 0 /\ mem0[3] = 128
    /\ StoredFloat(mem, op.dest) = Float(0, 126, 8388096)
    /\ StoredFloat(mem, AtSample(op.dest, 1)) = FMinusOne


Cleared == pc = "done" /\ op.name = "clearSamples"

\* C13: clearSamples (n), n >= 0, leaves each of the n samples at the stride of
\* the Pointer reading 0 through getAsInt32 (the byte 128 for UInt8, zero bytes
\* for the other formats) and changes no byte outside those n sample slots.
\* (clearSamples is const and clears through a copy of the Pointer, so the
\* samples are counted from where the Pointer it is called on still points.)
C13_ClearSilence ==
    (Cleared /\ op.numSamples >= 0)
    => LET p == op.dest
           silent == IF p.fmt = "UInt8" THEN 128 ELSE 0
       IN  /\ \A i \in 0..(op.numSamples - 1) :
                  /\ getAsInt32(mem, AtSample(p, i)) = 0
                  /\ SampleBytes(mem, p, i) = [j \in 1..bytesPerSample(p.fmt) |-> silent]
           /\ \A a \in (0..(MemSize - 1)) \ Slots(p, op.numSamples) : mem[a] = mem0[a]

\* C13's case: MaxN samples of one channel of a MaxChans-channel UInt8 stream
\* cleared, the bytes of the next channel being other than silence
C13_Witness ==
    /\ Cleared
    /\ op.numSamples = MaxN
    /\ op.dest.fmt = "UInt8"
    /\ op.dest.interleaved /\ op.dest.numInterleavedChannels = MaxChans
    /\ \A i \in 0..(MaxN - 1) :
           /\ mem[i * MaxChans] = 128 /\ mem0[i * MaxChans] # 128
           /\ mem[i * MaxChans + 1] # 128


HasStepped == pc = "stepped"

\* C14: after any sequence of ++, -- and += k on a Pointer, its address less
\* the address it was bound to is getNumBytesBetweenSamples() times the net
\* number of samples moved, that being bytesPerSample for NonInterleaved and
\* numInterleavedChannels * bytesPerSample for Interleaved; nothing but the
\* address has changed, in the Pointer or in the buffers; and from there ++
\* then --, or += k then += -k, lead back to the same address.
C14_SteppingInvariant ==
    HasStepped
    => LET c == op.dest
           stride == IF c.interleaved THEN c.numInterleavedChannels * bytesPerSample(c.fmt)
                     ELSE bytesPerSample(c.fmt)
       IN  /\ getNumBytesBetweenSamples(c) = stride
           /\ c.data - op.source.data = stride * op.numSamples
           /\ [c EXCEPT !.data = op.source.data] = op.source
           /\ mem = mem0 /\ mem = MemImage
           /\ advanceDataBy(advanceData(c), -1) = c
           /\ \A k \in (-MaxN)..MaxN : advanceDataBy(advanceDataBy(c, k), -k) = c

\* C14's case: an interleaved Int24 Pointer of MaxChans channels that a
\* negative += has left MaxN samples before the address it was bound to
C14_Witness ==
    /\ HasStepped
    /\ op.name = "operator+=" /\ op.ival < 0
    /\ op.dest.fmt = "Int24"
    /\ op.dest.interleaved /\ op.dest.numInterleavedChannels = MaxChans
    /\ op.numSamples = -MaxN
    /\ op.dest.data = op.source.data - MaxN * MaxChans * 3


\* the canonical float -> int32 rule: clamp to [-1, 1], multiply by 2^31, round
\* to the nearest int, the 2^31 of 1.0 being kept to the largest int
Canonical(f) ==
    IF ~FloatLess(f, FOne) THEN INT_MAX
    ELSE IF ~FloatLess(FMinusOne, f) THEN INT_MIN
    ELSE roundToInt(f, 31)

\* |a - b| < r on 32-bit values, without leaving 32 bits
Within(a, b, r) == Abs(a \div 2 - b \div 2) <= r /\ Abs(a - b) < r

\* C15: for every raw sample of every format, the canonical float -> int32
\* rule applied to getAsFloat() differs from getAsInt32() of the same sample
\* by less than one resolution step of the format.
C15_FloatIntConsistent ==
    (ReadInt32 /\ ~IsNaN(getAsFloat(mem, op.dest)))
    => Within(Canonical(getAsFloat(mem, op.dest)), ret.i, resolution(op.dest.fmt))

\* C15 without the cases that break it: an Int32 sample, whose float keeps 24
\* bits, and a Float32 sample of 1.0 or more
C15_NarrowFormatsConsistent ==
    (/\ ReadInt32
     /\ op.dest.fmt # "Int32"
     /\ ~IsNaN(getAsFloat(mem, op.dest))
     /\ FloatLess(getAsFloat(mem, op.dest), FOne))
    => Canonical(getAsFloat(mem, op.dest)) = ret.i


\* the addresses of the first n samples of p, in ascending and descending order
Ascending(p, n) == [i \in 1..n |-> p.data + (i - 1) * getNumBytesBetweenSamples(p)]

Descending(p, n) == [i \in 1..n |-> p.data + (n - i) * getNumBytesBetweenSamples(p)]

ConvertedAcross == Converted /\ ~SameType(op.dest, op.source)

\* C16 as stated: the templated convertSamples writes the destination samples
\* from the last to the first whenever source and destination start at one
\* address and the destination's stride is at least the source's, the equal
\* strides included, and from the first to the last in every other case.
C16_DirectionAsStated ==
    ConvertedAcross
    => writeLog = IF SameStart /\ getNumBytesBetweenSamples(op.dest)
                                     >= getNumBytesBetweenSamples(op.source)
                  THEN Descending(op.dest, op.numSamples)
                  ELSE Ascending(op.dest, op.numSamples)

\* C16, amended: the templated convertSamples writes the destination samples
\* from the last to the first exactly when source and destination start at one
\* address and the destination's stride is greater than the source's; with
\* equal strides, a smaller destination stride or different addresses it
\* writes them from the first to the last.
C16_Direction ==
    ConvertedAcross
    => writeLog = IF SameStart /\ getNumBytesBetweenSamples(op.dest)
                                     > getNumBytesBetweenSamples(op.source)
                  THEN Descending(op.dest, op.numSamples)
                  ELSE Ascending(op.dest, op.numSamples)

\* C16's case: Int32 samples converted in place to Float32 ones, MaxN of them
\* at equal strides, written from the first to the last
C16_Witness ==
    /\ ConvertedAcross
    /\ SameStart
    /\ op.source.fmt = "Int32" /\ op.dest.fmt = "Float32"
    /\ getNumBytesBetweenSamples(op.dest) = getNumBytesBetweenSamples(op.source)
    /\ op.numSamples = MaxN
    /\ writeLog = Ascending(op.dest, MaxN)
    /\ writeLog # Descending(op.dest, MaxN)


\* the bytes of a sample in reversed order
Reversed(bytes) == [j \in 1..Len(bytes) |-> bytes[Len(bytes) + 1 - j]]

Restored == pc = "restored"

\* C17: converting between Pointers of one multi-byte format and opposite byte
\* orders leaves in each destination sample the bytes of the corresponding
\* source sample in reversed order, whatever the bit pattern; and converting
\* the result back leaves the bytes of the original samples.
C17_PureByteSwap ==
    /\ (/\ Converted
        /\ Separate
        /\ op.dest.fmt = op.source.fmt
        /\ op.dest.bigEndian # op.source.bigEndian)
           => \A i \in 0..(op.numSamples - 1) :
                  SampleBytes(mem, op.dest, i) = Reversed(SampleBytes(mem0, op.source, i))
    /\ Restored
           => \A i \in 0..(op.numSamples - 1) :
                  SampleBytes(mem, op.dest, i) = SampleBytes(mem0, [op.dest EXCEPT !.data = 0], i)

\* C17's case: big-endian Float32 NaNs made little-endian and big-endian again
C17_Witness ==
    /\ Restored
    /\ op.dest.fmt = "Float32" /\ op.dest.bigEndian
    /\ op.numSamples = MaxN
    /\ IsNaN(StoredFloat(mem0, [op.dest EXCEPT !.data = 0]))
    /\ SampleBytes(mem, op.dest, 0) # Reversed(SampleBytes(mem, op.dest, 0))
    /\ SampleBytes(mem, op.source, 0) = Reversed(SampleBytes(mem, op.dest, 0))


\* destination sample i is what dest.setAsInt32 (source.getAsInt32()) stores
\* from source sample i
ThroughInt32(i) ==
    LET d == AtSample(op.dest, i)
        s == AtSample(op.source, i)
    IN  SampleBytes(mem, op.dest, i)
            = SampleBytes(setAsInt32(mem0, d, getAsInt32(mem0, s)), op.dest, i)

\* source sample i is not a Float32 NaN
Numeric(i) ==
    isFloat(op.source.fmt) => ~IsNaN(StoredFloat(mem0, AtSample(op.source, i)))

\* C18 as stated: for every pair of source and destination formats and every
\* source sample, the templated conversion stores what
\* dest.setAsInt32 (source.getAsInt32()) stores.
C18_SinglePipelineAsStated ==
    (ConvertedAcross /\ Separate)
    => \A i \in 0..(op.numSamples - 1) : Numeric(i) => ThroughInt32(i)

\* C18, amended: whenever the source or the destination is an integer format
\* the templated conversion stores what dest.setAsInt32 (source.getAsInt32())
\* stores, for every source sample; from Float32 to Float32 it stores the
\* source's float itself, unclamped and unrounded.
C18_SinglePipeline ==
    (ConvertedAcross /\ Separate)
    => \A i \in 0..(op.numSamples - 1) :
           IF isFloat(op.source.fmt) /\ isFloat(op.dest.fmt)
           THEN StoredFloat(mem, AtSample(op.dest, i)) = StoredFloat(mem0, AtSample(op.source, i))
           ELSE Numeric(i) => ThroughInt32(i)

\* C18's case: the Int32 sample 0x7f7f7f7f, one more than 24 bits hold,
\* converted to the float 0x7f7f7f80 / 2^31
C18_Witness ==
    /\ ConvertedAcross
    /\ Separate
    /\ op.source.fmt = "Int32" /\ op.dest.fmt = "Float32"
    /\ op.numSamples = MaxN
    /\ \A a \in 0..3 : mem0[a] = 127
    /\ StoredFloat(mem, op.dest) = Float(0, 126, 8322815)


\* C19: an in-place conversion through the templated convertSamples, source and
\* destination at the same address and the destination's stride at most the
\* source's, leaves in every destination sample what the same call leaves in a
\* destination in a separate buffer.
C19_InPlaceNarrowing ==
    (/\ ConvertedAcross
     /\ SameStart
     /\ getNumBytesBetweenSamples(op.dest) <= getNumBytesBetweenSamples(op.source)
     /\ op.numSamples >= 0)
    => LET apart == Elsewhere(op.dest)
           ref == convertSamples(mem0, apart, op.source, op.numSamples).mem
       IN  \A i \in 0..(op.numSamples - 1) :
               SampleBytes(mem, op.dest, i) = SampleBytes(ref, apart, i)

\* C19's case: 32-bit samples narrowed in place to 16-bit ones, where a
\* backward pass would have overwritten samples it had not read yet
C19_Witness ==
    /\ ConvertedAcross
    /\ SameStart
    /\ op.source.fmt = "Int32" /\ ~op.source.interleaved
    /\ op.dest.fmt = "Int16" /\ ~op.dest.interleaved
    /\ op.numSamples = MaxN
    /\ writeLog = Ascending(op.dest, MaxN)
    /\ BackwardLoop(mem0, advanceDataBy(op.dest, MaxN), advanceDataBy(op.source, MaxN),
                    MaxN, <<>>).mem # mem

\* C20: between two Pointers of one type bound to the same address with
\* different interleaved channel counts, convertSamples leaves in every
\* destination sample the original bytes of the corresponding source sample,
\* whether the destination has fewer channels than the source or more.
C20_SameTypeAliasSafe ==
    (/\ Converted
     /\ SameType(op.dest, op.source)
     /\ SameStart
     /\ op.dest.interleaved
     /\ op.dest.numInterleavedChannels # op.source.numInterleavedChannels)
    => \A i \in 0..(op.numSamples - 1) :
           SampleBytes(mem, op.dest, i) = SampleBytes(mem0, op.source, i)

\* C20 where it does hold: the destination has fewer channels than the source
C20_FewerChannels ==
    (/\ Converted
     /\ SameType(op.dest, op.source)
     /\ SameStart
     /\ op.dest.interleaved
     /\ op.dest.numInterleavedChannels < op.source.numInterleavedChannels)
    => \A i \in 0..(op.numSamples - 1) :
           SampleBytes(mem, op.dest, i) = SampleBytes(mem0, op.source, i)

====
